---- MODULE Spec2Model ----
(***************************************************************************)
(* xenovaPay: the in-memory transaction store (server/storage.ts) and the  *)
(* route handlers of server/routes.ts that create, reconcile and report    *)
(* mobile-money transactions against the PawaPay gateway.                  *)
(*                                                                         *)
(* JavaScript values are modelled as strings; Undefined and Null are the   *)
(* two distinguished non-values.  Timestamps are naturals read off clock.  *)
(***************************************************************************)
EXTENDS Integers, Sequences, FiniteSets, TLC

\* ------------------------------------------------------------------ bounds
\* number of ids randomUUID() can hand out
MaxTx == 2
\* handlers that may be in flight (suspended at an await) at the same time
MaxHandlers == 2
\* requests accepted in one run
MaxRequests == 3
\* how far the wall clock advances while the handlers run
MaxClock == 3
\* how far the wall clock advances in the store-level specification
MaxStoreClock == 2
\* direct store calls in one run of the store-level specification
MaxCalls == 3
\* how many times the receipt page polls in one run
MaxPolls == 3

\* ------------------------------------------------------------ JS values
Undefined == "<undefined>"
Null == "<null>"

\* JavaScript truthiness of a string-or-nothing value (x || y, !x)
Truthy(x) == x \notin {Undefined, Null, ""}

\* x || y
Or(x, y) == IF Truthy(x) THEN x ELSE y

\* ---------------------------------------------------------------- schema
Fields ==
  {"id", "type", "status", "amount", "currency", "country", "phoneNumber",
   "provider", "description", "providerTransactionId", "pawapayResponse",
   "errorMessage", "created", "updated"}

\* the columns of an InsertTransaction (created and updated omitted)
InsertFields == Fields \ {"created", "updated"}

StatusEnum == {"PENDING", "ACCEPTED", "COMPLETED", "FAILED"}

AllIds == {"id1", "id2", "id3", "id4"}
\* (mutant) the generator gives the same id twice
IdSeq_repeats == <<"id1", "id1", "id3", "id4">>
IdSeq == <<"id1", "id2", "id3", "id4">>
\* the ids randomUUID() generates, in order of generation
Ids == {IdSeq[i] : i \in 1..MaxTx}

VARIABLES
  transactions,   \* MemStorage.transactions: id -> Transaction
  clock,          \* the wall clock new Date() reads
  call,           \* the store method the last step called, its arguments, the
                  \* route that called it and the request body it served
  nextId,         \* how many ids randomUUID() has generated
  hs,             \* the request handlers in flight, each suspended at an await
  lastRes,        \* the HTTP response sent by the last step, if it sent one
  gwCall,         \* the gateway call the last step issued, or the reply it got
  sent,           \* the ids sent to the gateway in a create call so far
  nreq,           \* requests accepted so far
  providers,      \* MemStorage.providers: the Provider objects, in the order
                  \* their codes were first set
  seeded,         \* how many default providers initializeProviders has created
  env,            \* process.env
  server,         \* what registerRoutes made of the environment
  page            \* the receipt page open in the browser, if one is

storeVars == <<transactions, clock, call>>
handlerVars == <<nextId, hs, lastRes, gwCall, sent, nreq>>
bootVars == <<providers, seeded, env, server, page>>
vars == <<transactions, clock, call, nextId, hs, lastRes, gwCall, sent, nreq,
          providers, seeded, env, server, page>>

NoCall == [op |-> "none"]
NoRes == [code |-> 0]
NoPage == [mounted |-> FALSE, pc |-> "none"]
NoGwCall == [endpoint |-> "none"]
Idle == [pc |-> "idle"]

\* ----------------------------------------------------------------- store
\* Map.has
Has(txs, id) == id \in DOMAIN txs

\* Map.set
MapSet(txs, id, rec) ==
  [k \in DOMAIN txs \cup {id} |-> IF k = id THEN rec ELSE txs[k]]

\* { ...a, ...b }: the own keys of b override those of a
Spread(a, b) ==
  [f \in DOMAIN a \cup DOMAIN b |-> IF f \in DOMAIN b THEN b[f] ELSE a[f]]

\* (mutant) createTransaction stores the description as it was given
NewTransaction_keepsDescription(insertTransaction, now) ==
  Spread(insertTransaction, [created |-> now, updated |-> now])

\* the Transaction object createTransaction builds
NewTransaction(insertTransaction, now) ==
  Spread(insertTransaction,
         [description |-> Or(insertTransaction.description, Null),
          created |-> now,
          updated |-> now])

\* MemStorage.createTransaction: the map after the call
createTransaction(txs, insertTransaction, now) ==
  MapSet(txs, insertTransaction.id, NewTransaction(insertTransaction, now))

\* (mutant) the update stamps created as well as updated
Merged_stampsCreated(existing, updates, now) ==
  Spread(Spread(existing, updates), [created |-> now, updated |-> now])

\* (mutant) the update re-applies createTransaction's description default
Merged_defaultsDescription(existing, updates, now) ==
  Spread(Spread(existing, updates), [description |-> Null, updated |-> now])

\* (mutant) the update keeps the value a column already has
Merged_keepsExisting(existing, updates, now) ==
  Spread(Spread(updates, existing), [updated |-> now])

\* (mutant) the update clears the gateway columns it is not given
Merged_resetsOthers(existing, updates, now) ==
  Spread(Spread(Spread(existing,
                       [providerTransactionId |-> Null,
                        pawapayResponse |-> Null, errorMessage |-> Null]),
                updates),
         [updated |-> now])

\* (mutant) an updated value in the partial update wins over the clock
Merged_updatesWin(existing, updates, now) ==
  Spread(Spread(existing, [updated |-> now]), updates)

\* (mutant) the update appends the raw payload to the one already stored
Merged_appendsResponse(existing, updates, now) ==
  Spread(Spread(existing, updates),
         [pawapayResponse |->
            IF "pawapayResponse" \in DOMAIN updates
            THEN Or(existing.pawapayResponse, "") \o updates.pawapayResponse
            ELSE existing.pawapayResponse,
          updated |-> now])

\* the Transaction object updateTransaction builds from an existing one
Merged(existing, updates, now) ==
  Spread(Spread(existing, updates), [updated |-> now])

\* (mutant) an update of an id that is not stored inserts a record
updateTransaction_upserts(txs, id, updates, now) ==
  IF ~Has(txs, id)
  THEN MapSet(txs, id,
              Merged([f \in Fields |->
                        IF f = "id" THEN id
                        ELSE IF f \in {"created", "updated"} THEN now
                        ELSE Null],
                     updates, now))
  ELSE MapSet(txs, id, Merged(txs[id], updates, now))

\* MemStorage.updateTransaction: the map after the call
updateTransaction(txs, id, updates, now) ==
  IF ~Has(txs, id) THEN txs
  ELSE MapSet(txs, id, Merged(txs[id], updates, now))

\* Map.prototype.values(): the records in insertion order.  The routes insert
\* each id once, in the order randomUUID generated them
RECURSIVE ValuesFrom(_, _)
ValuesFrom(txs, i) ==
  IF i > Len(IdSeq) THEN <<>>
  ELSE (IF Has(txs, IdSeq[i]) THEN <<txs[IdSeq[i]]>> ELSE <<>>)
         \o ValuesFrom(txs, i + 1)

Values(txs) == ValuesFrom(txs, 1)

\* one step of the stable sort with (a, b) => b.created - a.created: t goes
\* behind every element that is not older than it
RECURSIVE InsertSorted(_, _)
InsertSorted(sorted, t) ==
  IF sorted = <<>> THEN <<t>>
  ELSE IF Head(sorted).created >= t.created
       THEN <<Head(sorted)>> \o InsertSorted(Tail(sorted), t)
       ELSE <<t>> \o sorted

\* Array.prototype.sort((a, b) => b.created.getTime() - a.created.getTime())
RECURSIVE SortByCreated(_)
SortByCreated(list) ==
  IF list = <<>> THEN <<>>
  ELSE InsertSorted(SortByCreated(SubSeq(list, 1, Len(list) - 1)),
                    list[Len(list)])

\* (mutant) the list is returned in insertion order
getAllTransactions_unsorted(txs) == Values(txs)

\* MemStorage.getAllTransactions
getAllTransactions(txs) == SortByCreated(Values(txs))

\* MemStorage.getTransactionsByType
getTransactionsByType(txs, type) ==
  SortByCreated(SelectSeq(Values(txs), LAMBDA t : t.type = type))

\* new Date(): the clock may have advanced since it was last read
Times(limit) == {t \in {clock, clock + 1} : t <= limit}

\* new Date() in a route handler: each store call made while handlers run is
\* stamped later than the one before, until the clock reaches its bound
Now == {IF clock < MaxClock THEN clock + 1 ELSE clock}

\* new Date() in the store-level specification
StoreNow == Times(MaxStoreClock)

\* ------------------------------------------------------ provider catalog
\* obj.f of an object that may lack the property
Get(obj, f) == IF f \in DOMAIN obj THEN obj[f] ELSE Undefined

\* the defaultProviders array of initializeProviders
DefaultProviders ==
  << [code |-> "MTN_MOMO_RWA", displayName |-> "MTN Rwanda", country |-> "RWA",
      currency |-> "RWF", isActive |-> TRUE],
     [code |-> "AIRTEL_RWA", displayName |-> "Airtel Rwanda", country |-> "RWA",
      currency |-> "RWF", isActive |-> TRUE],
     [code |-> "MTN_MOMO_UGA", displayName |-> "MTN Uganda", country |-> "UGA",
      currency |-> "UGX", isActive |-> TRUE],
     [code |-> "AIRTEL_UGA", displayName |-> "Airtel Uganda", country |-> "UGA",
      currency |-> "UGX", isActive |-> TRUE],
     [code |-> "MPESA", displayName |-> "M-Pesa", country |-> "KEN",
      currency |-> "KES", isActive |-> TRUE],
     [code |-> "AIRTEL_KEN", displayName |-> "Airtel Kenya", country |-> "KEN",
      currency |-> "KES", isActive |-> TRUE] >>

\* randomUUID() in createProvider, for the default providers and for others
SeedId(i) == "seed" \o ToString(i)
ProviderIds == {"p1"}

\* the Provider object createProvider builds
NewProvider(insertProvider, id) ==
  Spread(insertProvider, [id |-> id, logo |-> Or(Get(insertProvider, "logo"), Null)])

\* Map.set on a map that keeps the order in which its keys were first set
ProviderSet(ps, provider) ==
  IF \E i \in 1..Len(ps) : ps[i].code = provider.code
  THEN [i \in 1..Len(ps) |->
          IF ps[i].code = provider.code THEN provider ELSE ps[i]]
  ELSE Append(ps, provider)

\* MemStorage.createProvider: the catalog after the call
createProvider(ps, insertProvider, id) ==
  ProviderSet(ps, NewProvider(insertProvider, id))

\* p.isActive as a condition: a missing isActive is undefined, which is falsy
IsActive(p) == "isActive" \in DOMAIN p /\ p.isActive = TRUE

\* (mutant) the country filter alone
getProvidersByCountry_anyState(ps, country) ==
  SelectSeq(ps, LAMBDA p : p.country = country)

\* MemStorage.getProvidersByCountry
getProvidersByCountry(ps, country) ==
  SelectSeq(ps, LAMBDA p : p.country = country /\ IsActive(p))

\* MemStorage.getAllProviders
getAllProviders(ps) == SelectSeq(ps, LAMBDA p : IsActive(p))

\* the catalog once initializeProviders has created its first n providers
RECURSIVE Seeded(_)
Seeded(n) ==
  IF n = 0 THEN <<>>
  ELSE createProvider(Seeded(n - 1), DefaultProviders[n], SeedId(n))

\* ----------------------------------------------------------------- startup
\* String.prototype.startsWith
StartsWith(str, prefix) ==
  Len(str) >= Len(prefix) /\ SubSeq(str, 1, Len(prefix)) = prefix

\* String.prototype.substring(start): start counts from 0
Substring(str, start) == SubSeq(str, start + 1, Len(str))

Placeholder == "your-api-token"

\* registerRoutes up to the first app.get: it throws, or it has its
\* configuration and goes on to register the routes
registerRoutes(e) ==
  LET API_BASE == Or(e.PAWAPAY_API_BASE, "https://api.sandbox.pawapay.io/v2")
      rawApiToken == Or(e.PAWAPAY_API_TOKEN, Placeholder)
      NODE_ENV == Or(e.NODE_ENV, "development")
  IN  IF NODE_ENV = "production"
         /\ (rawApiToken = Placeholder \/ ~Truthy(rawApiToken))
      THEN [state |-> "threw"]
      ELSE [state |-> "registered",
            API_BASE |-> API_BASE,
            BASE_URL |-> "http://localhost:" \o Or(e.PORT, "3000"),
            API_TOKEN |-> IF StartsWith(rawApiToken, "Bearer ")
                          THEN Substring(rawApiToken, 7)
                          ELSE rawApiToken]

\* an environment with nothing set
NoEnv ==
  [NODE_ENV |-> Undefined, PAWAPAY_API_TOKEN |-> Undefined,
   PAWAPAY_API_BASE |-> Undefined, PORT |-> Undefined]

\* the catalog is seeded and the routes are registered before the server
\* listens: the state in which requests are served
Booted ==
  /\ providers = Seeded(Len(DefaultProviders))
  /\ seeded = Len(DefaultProviders)
  /\ env = NoEnv
  /\ server = registerRoutes(NoEnv)
  /\ page = NoPage

\* ------------------------------------------------- store-level specification
\* Direct calls of the IStorage methods, with arguments of every shape the
\* types InsertTransaction and Partial<Transaction> admit.

\* Well-formed InsertTransaction arguments
InsertSamples ==
  { [id |-> i, type |-> t, status |-> "PENDING", amount |-> "1000",
     currency |-> "RWF", country |-> "", phoneNumber |-> "250783456789",
     provider |-> "MTN_MOMO_RWA", description |-> d,
     providerTransactionId |-> Null, pawapayResponse |-> Null,
     errorMessage |-> Null]
    : i \in Ids, t \in {"DEPOSIT"}, d \in {Undefined, "rent"} }

\* The value a store-level partial update gives to field f
Alt(f) ==
  CASE f = "id" -> "id2"
    [] f = "type" -> "PAYOUT"
    [] f = "status" -> "COMPLETED"
    [] f = "amount" -> "5"
    [] f = "currency" -> "UGX"
    [] f = "country" -> "UGA"
    [] f = "phoneNumber" -> "256700000000"
    [] f = "provider" -> "AIRTEL_UGA"
    [] f = "description" -> "note"
    [] f = "providerTransactionId" -> "ptx1"
    [] f = "pawapayResponse" -> "{}"
    [] f = "errorMessage" -> "fetch failed"
    [] f = "created" -> MaxStoreClock
    [] f = "updated" -> 0

\* The field sets of the partial updates: none, each column on its own, and
\* the sets of columns the route handlers write together
PartialShapes ==
  {{}} \cup {{f} : f \in Fields} \cup
  { {"status", "pawapayResponse", "country"},
    {"status", "errorMessage"},
    {"status", "pawapayResponse", "providerTransactionId"},
    {"status", "pawapayResponse", "providerTransactionId", "country"},
    {"status", "pawapayResponse"} }

\* Partial<Transaction> values
Partials == { [f \in F |-> Alt(f)] : F \in PartialShapes }

InitStore ==
  /\ transactions = <<>>
  /\ clock = 0
  /\ call = NoCall
  /\ nextId = 0
  /\ hs = [h \in 1..MaxHandlers |-> Idle]
  /\ lastRes = NoRes
  /\ gwCall = NoGwCall
  /\ sent = {}
  /\ nreq = 0
  /\ Booted

\* storage.createTransaction(ins)
StoreCreate ==
  \E ins \in InsertSamples, now \in StoreNow :
    /\ nreq < MaxCalls
    /\ transactions' = createTransaction(transactions, ins, now)
    /\ clock' = now
    /\ call' = [op |-> "create", id |-> ins.id, arg |-> ins, by |-> "direct"]
    /\ nreq' = nreq + 1
    /\ UNCHANGED <<nextId, hs, lastRes, gwCall, sent>>
    /\ UNCHANGED bootVars

\* storage.updateTransaction(id, updates)
StoreUpdate ==
  \E id \in Ids, updates \in Partials, now \in StoreNow :
    /\ nreq < MaxCalls
    /\ transactions' = updateTransaction(transactions, id, updates, now)
    /\ clock' = IF Has(transactions, id) THEN now ELSE clock
    /\ call' = [op |-> "update", id |-> id, arg |-> updates, by |-> "direct"]
    /\ nreq' = nreq + 1
    /\ UNCHANGED <<nextId, hs, lastRes, gwCall, sent>>
    /\ UNCHANGED bootVars

NextStore == StoreCreate \/ StoreUpdate

SpecStore == InitStore /\ [][NextStore]_vars

\* ------------------------------------------ the catalog on its own
\* InsertProvider arguments: the code of a default provider or a new one,
\* active, inactive or with isActive left to the column default
InsertProviderSamples ==
  { [code |-> c, displayName |-> "Provider", country |-> k, currency |-> "RWF",
     isActive |-> a]
    : c \in {"MTN_MOMO_RWA", "MPESA", "NEW_MOMO"}, k \in {"RWA", "UGA"},
      a \in BOOLEAN }
  \cup
  { [code |-> c, displayName |-> "Provider", country |-> k, currency |-> "RWF"]
    : c \in {"MTN_MOMO_RWA", "MPESA", "NEW_MOMO"}, k \in {"RWA", "UGA"} }

\* the countries asked for
Countries == {"RWA", "UGA", "KEN", "TZA"}

\* new MemStorage(): initializeProviders has run up to its first await, and
\* registerRoutes has not been called yet
InitProviders ==
  /\ transactions = <<>>
  /\ clock = 0
  /\ call = NoCall
  /\ nextId = 0
  /\ hs = [h \in 1..MaxHandlers |-> Idle]
  /\ lastRes = NoRes
  /\ gwCall = NoGwCall
  /\ sent = {}
  /\ nreq = 0
  /\ providers = Seeded(1)
  /\ seeded = 1
  /\ env = NoEnv
  /\ server = [state |-> "down"]
  /\ page = NoPage

\* initializeProviders resumes after an await and creates the next provider
ProviderSeed ==
  /\ seeded < Len(DefaultProviders)
  /\ providers' =
       createProvider(providers, DefaultProviders[seeded + 1], SeedId(seeded + 1))
  /\ seeded' = seeded + 1
  /\ call' = [op |-> "createProvider", arg |-> DefaultProviders[seeded + 1],
              by |-> "initializeProviders"]
  /\ UNCHANGED <<transactions, clock, nextId, hs, lastRes, gwCall, sent, nreq,
                 env, server, page>>

\* storage.createProvider(insertProvider) called directly
ProviderCreate ==
  \E insertProvider \in InsertProviderSamples, id \in ProviderIds :
    /\ providers' = createProvider(providers, insertProvider, id)
    /\ call' = [op |-> "createProvider", arg |-> insertProvider, by |-> "direct"]
    /\ UNCHANGED <<transactions, clock, nextId, hs, lastRes, gwCall, sent, nreq,
                   seeded, env, server, page>>

NextProviders == ProviderSeed \/ ProviderCreate

SpecProviders == InitProviders /\ [][NextProviders]_vars

\* ------------------------------------------------------ the environment
\* process.env when the server is started
Envs ==
  { [NODE_ENV |-> n, PAWAPAY_API_TOKEN |-> t, PAWAPAY_API_BASE |-> b, PORT |-> p]
    : n \in {Undefined, "production", "development", "test"},
      t \in {Undefined, "", Placeholder, "Bearer " \o Placeholder,
             "sk_live_1", "Bearer sk_live_1"},
      b \in {Undefined, "https://api.pawapay.io/v2"},
      p \in {Undefined, "5000"} }

\* ---------------------------------------------------------- request inputs
\* req.body of POST /api/deposits: a field that is missing is Undefined
DepositBodies ==
  { [phoneNumber |-> ph, provider |-> "MTN_MOMO_RWA", amount |-> a,
     currency |-> "RWF", description |-> d]
    : ph \in {"250783456789", "12345"}, a \in {"1000", Undefined},
      d \in {Undefined, "", "rent", "rent#1"} }

\* req.body of POST /api/payouts
PayoutBodies ==
  { [phoneNumber |-> ph, provider |-> "MTN_MOMO_RWA", amount |-> a,
     currency |-> "RWF", description |-> d]
    : ph \in {"250783456789", "12345"}, a \in {"1000", Undefined},
      d \in {""} }

\* z.string()
IsString(x) == x \notin {Undefined, Null}

\* /^[a-zA-Z0-9 ]*$/ on the descriptions in use
AlnumSpace(x) == x \notin {"rent#1"}

\* depositRequestSchema.parse(body) does not throw
ValidDeposit(body) ==
  /\ IsString(body.phoneNumber) /\ Len(body.phoneNumber) >= 10
  /\ IsString(body.provider)
  /\ IsString(body.amount)
  /\ IsString(body.currency)
  /\ \/ body.description = Undefined
     \/ /\ IsString(body.description)
        /\ Len(body.description) >= 4
        /\ Len(body.description) <= 22
        /\ AlnumSpace(body.description)

\* payoutRequestSchema.parse(body) does not throw
ValidPayout(body) ==
  /\ IsString(body.phoneNumber) /\ Len(body.phoneNumber) >= 10
  /\ IsString(body.provider)
  /\ IsString(body.amount)
  /\ IsString(body.currency)
  /\ body.description = Undefined \/ IsString(body.description)

\* ---------------------------------------------------------------- gateway
\* Parsed JSON bodies of the gateway's deposit, payout and status responses:
\* accepted, completed with the provider's reference, failed or rejected
\* without one
GatewayPayloads ==
  { [status |-> "ACCEPTED", providerTransactionId |-> Undefined, country |-> "RWA"],
    [status |-> "COMPLETED", providerTransactionId |-> "ptx1", country |-> "RWA"],
    [status |-> "FAILED", providerTransactionId |-> Undefined, country |-> Undefined],
    [status |-> "REJECTED", providerTransactionId |-> Undefined, country |-> Undefined] }

\* What a webhook payload may carry besides the ids: a completed or failed
\* transaction, or no status at all (nothing checks the payload)
CallbackPayloads ==
  { [status |-> "COMPLETED", providerTransactionId |-> "ptx1", country |-> "RWA"],
    [status |-> "FAILED", providerTransactionId |-> Undefined, country |-> Undefined],
    [status |-> Undefined, providerTransactionId |-> Undefined, country |-> Undefined] }

\* The message of the Error callPawaPayAPI throws
GwErrors == {"fetch failed"}

\* callPawaPayAPI: it resolves with the parsed body or rejects with an Error
GwOutcomes(payloads) ==
  {[ok |-> TRUE, data |-> d] : d \in payloads} \cup
  {[ok |-> FALSE, error |-> e] : e \in GwErrors}

\* JSON.stringify of one property: an undefined property is left out
RECURSIVE JsonProps(_, _, _)
JsonProps(obj, keys, first) ==
  IF keys = <<>> THEN ""
  ELSE LET k == Head(keys)
           v == obj[k]
       IN  IF v = Undefined THEN JsonProps(obj, Tail(keys), first)
           ELSE (IF first THEN "" ELSE ",") \o k \o ":"
                  \o (IF v = Null THEN "null" ELSE "'" \o v \o "'")
                  \o JsonProps(obj, Tail(keys), FALSE)

\* JSON.stringify(obj), the properties of obj in the order keys
JSONstringify(obj, keys) == "{" \o JsonProps(obj, keys, TRUE) \o "}"

PayloadKeys == <<"status", "providerTransactionId", "country">>

\* ------------------------------------------------------- handler plumbing
Slots == 1..MaxHandlers

\* storage.getTransaction found nothing
NoTx == <<>>

\* the gateway has not answered yet
NoGw == [pending |-> TRUE]

\* callPawaPayAPI returns or throws in the handler working on id
GwReply(id, out) == [endpoint |-> "reply", id |-> id, out |-> out]

\* A handler suspended at an await: its route, where it is, the id it works
\* on, the Transaction object it read, and what callPawaPayAPI gave it
Handler(kind, pc, id, tx, gw) ==
  [kind |-> kind, pc |-> pc, id |-> id, tx |-> tx, gw |-> gw]

FreeSlots == {h \in Slots : hs[h] = Idle}
NewSlot == CHOOSE h \in FreeSlots : \A g \in FreeSlots : h <= g

\* (mutant) a request or a gateway reply may be served while a handler waits
\* for the store
JobQueued_never == FALSE

\* A handler awaits a MemStorage call.  The call has run to its end (the
\* methods of MemStorage await nothing), so the handler's continuation is a
\* queued promise job, and the job queue is emptied before the event loop
\* delivers the next request or gateway reply
JobQueued == \E h \in Slots : hs[h] # Idle /\ hs[h].pc = "written"

\* (mutant) a request may be served while initializeProviders is suspended
SeedQueued_never == FALSE

\* initializeProviders is suspended at an await of createProvider, which
\* awaits nothing: its continuation is a queued promise job as well
SeedQueued == seeded < Len(DefaultProviders)

\* the event loop delivers one more request
Arrives == nreq < MaxRequests /\ ~JobQueued /\ ~SeedQueued

\* the server takes one more request that will call the gateway
CanAccept == Arrives /\ FreeSlots # {}

\* MemStorage.getTransaction
getTransaction(txs, id) == IF Has(txs, id) THEN txs[id] ELSE NoTx

\* apiError instanceof Error ? apiError.message : 'Unknown API error'
ErrorMessage(out) == out.error

Init == InitStore

\* -------------------------------------- POST /api/deposits, /api/payouts
InitiateKinds == {"deposit", "payout"}

BodiesOf(kind) == IF kind = "deposit" THEN DepositBodies ELSE PayoutBodies

Valid(kind, body) ==
  IF kind = "deposit" THEN ValidDeposit(body) ELSE ValidPayout(body)

\* the argument of storage.createTransaction in the two handlers
InsertOf(kind, id, body) ==
  [id |-> id,
   type |-> IF kind = "payout" THEN "PAYOUT" ELSE "DEPOSIT",
   status |-> "PENDING",
   amount |-> body.amount,
   currency |-> body.currency,
   country |-> "",
   phoneNumber |-> body.phoneNumber,
   provider |-> body.provider,
   description |-> body.description,
   pawapayResponse |-> Null,
   providerTransactionId |-> Null,
   errorMessage |-> Null]

\* the endpoint of the create call of each initiate route
CreateEndpoint(kind) ==
  CASE kind = "deposit" -> "POST /deposits"
    [] kind = "payout" -> "POST /payouts"
    [] kind = "hosted" -> "POST /widget/sessions"

\* the schema rejects the body: 400, nothing else happens
InitiateInvalid ==
  \E kind \in InitiateKinds : \E body \in BodiesOf(kind) :
    /\ Arrives
    /\ ~Valid(kind, body)
    /\ lastRes' = [code |-> 400, kind |-> kind, body |-> [error |-> "ZodError"]]
    /\ nreq' = nreq + 1
    /\ call' = NoCall
    /\ gwCall' = NoGwCall
    /\ UNCHANGED <<transactions, clock, nextId, hs, sent>>
    /\ UNCHANGED bootVars

\* parse, randomUUID, await storage.createTransaction; then callPawaPayAPI is
\* entered and the create request leaves for the gateway.  The continuation
\* after the await touches no shared state before it suspends in fetch, so
\* it is taken in the same step
InitiateCreate ==
  \E kind \in InitiateKinds : \E body \in BodiesOf(kind) : \E now \in Now :
    /\ CanAccept
    /\ nextId < MaxTx
    /\ Valid(kind, body)
    /\ LET id == IdSeq[nextId + 1]
           ins == InsertOf(kind, id, body)
       IN  /\ transactions' = createTransaction(transactions, ins, now)
           /\ call' = [op |-> "create", id |-> id, arg |-> ins, by |-> kind,
                      req |-> body]
           /\ hs' = [hs EXCEPT ![NewSlot] = Handler(kind, "gw", id, NoTx, NoGw)]
           /\ gwCall' = [endpoint |-> CreateEndpoint(kind), id |-> id]
           /\ sent' = sent \cup {id}
    /\ clock' = now
    /\ nextId' = nextId + 1
    /\ nreq' = nreq + 1
    /\ lastRes' = NoRes
    /\ UNCHANGED bootVars

\* (mutant) the catch block marks the record failed without the message
InitiateUpdates_noMessage(out) ==
  IF out.ok
  THEN [status |-> out.data.status,
        pawapayResponse |-> JSONstringify(out.data, PayloadKeys),
        country |-> Or(out.data.country, "")]
  ELSE [status |-> "FAILED"]

\* the partial update the deposit and payout handlers merge
InitiateUpdates(out) ==
  IF out.ok
  THEN [status |-> out.data.status,
        pawapayResponse |-> JSONstringify(out.data, PayloadKeys),
        country |-> Or(out.data.country, "")]
  ELSE [status |-> "FAILED", errorMessage |-> ErrorMessage(out)]

\* the gateway answers or fails: await storage.updateTransaction
InitiateReply(h) ==
  /\ hs[h] # Idle
  /\ hs[h].pc = "gw"
  /\ ~JobQueued
  /\ hs[h].kind \in InitiateKinds
  /\ \E out \in GwOutcomes(GatewayPayloads), now \in Now :
       /\ transactions' =
            updateTransaction(transactions, hs[h].id, InitiateUpdates(out), now)
       /\ clock' = IF Has(transactions, hs[h].id) THEN now ELSE clock
       /\ call' = [op |-> "update", id |-> hs[h].id, arg |-> InitiateUpdates(out),
                   by |-> hs[h].kind]
       /\ hs' = [hs EXCEPT ![h].pc = "written", ![h].gw = out]
       /\ gwCall' = GwReply(hs[h].id, out)
  /\ lastRes' = NoRes
  /\ UNCHANGED <<nextId, sent, nreq>>
  /\ UNCHANGED bootVars

\* the response of a deposit or payout handler
InitiateResponse(kind, id, out) ==
  IF out.ok
  THEN [code |-> 200, kind |-> kind,
        body |-> Spread([transactionId |-> id], out.data)]
  ELSE [code |-> 500, kind |-> kind,
        body |-> [transactionId |-> id, error |-> ErrorMessage(out)]]

\* (mutant) the handler ends after its write without answering
InitiateRespond_silent(h) ==
  /\ hs[h] # Idle
  /\ hs[h].pc = "written"
  /\ hs[h].kind \in InitiateKinds
  /\ lastRes' = NoRes
  /\ hs' = [hs EXCEPT ![h] = Idle]
  /\ call' = NoCall
  /\ gwCall' = NoGwCall
  /\ UNCHANGED <<transactions, clock, nextId, sent, nreq>>
  /\ UNCHANGED bootVars

\* res.json(...) / res.status(500).json(...): the handler ends
InitiateRespond(h) ==
  /\ hs[h] # Idle
  /\ hs[h].pc = "written"
  /\ hs[h].kind \in InitiateKinds
  /\ lastRes' = InitiateResponse(hs[h].kind, hs[h].id, hs[h].gw)
  /\ hs' = [hs EXCEPT ![h] = Idle]
  /\ call' = NoCall
  /\ gwCall' = NoGwCall
  /\ UNCHANGED <<transactions, clock, nextId, sent, nreq>>
  /\ UNCHANGED bootVars

\* ------------------------------------------------ POST /api/hosted-payment
\* req.body: destructured without validation, so any field may be missing
HostedBodies ==
  { [phoneNumber |-> "250783456789", amount |-> "1000", currency |-> "RWF",
     description |-> d, country |-> "RWA"] : d \in {"rent"} }
  \cup
  { [phoneNumber |-> Undefined, amount |-> Undefined, currency |-> Undefined,
     description |-> Undefined, country |-> Undefined] }

\* Parsed JSON bodies of the gateway's widget-session response: the redirect
\* URL alone, and one that reports a status and a country as well
SessionPayloads ==
  { [redirectUrl |-> "https://widget/session", status |-> Undefined,
     country |-> Undefined],
    [redirectUrl |-> "https://widget/session", status |-> "ACCEPTED",
     country |-> "UGA"] }

SessionKeys == <<"redirectUrl", "status", "country">>

\* the argument of storage.createTransaction in the hosted-payment handler
HostedInsert(id, body) ==
  [id |-> id,
   type |-> "DEPOSIT",
   status |-> "PENDING",
   amount |-> body.amount,
   currency |-> body.currency,
   country |-> body.country,
   phoneNumber |-> body.phoneNumber,
   provider |-> "",
   description |-> body.description,
   pawapayResponse |-> Null,
   providerTransactionId |-> Null,
   errorMessage |-> Null]

\* destructure the body, randomUUID, await storage.createTransaction; then
\* the widget-session request leaves for the gateway
HostedCreate ==
  \E body \in HostedBodies, now \in Now :
    /\ CanAccept
    /\ nextId < MaxTx
    /\ LET id == IdSeq[nextId + 1]
           ins == HostedInsert(id, body)
       IN  /\ transactions' = createTransaction(transactions, ins, now)
           /\ call' = [op |-> "create", id |-> id, arg |-> ins, by |-> "hosted",
                      req |-> body]
           /\ hs' = [hs EXCEPT ![NewSlot] = Handler("hosted", "gw", id, NoTx, NoGw)]
           /\ gwCall' = [endpoint |-> CreateEndpoint("hosted"), id |-> id]
           /\ sent' = sent \cup {id}
    /\ clock' = now
    /\ nextId' = nextId + 1
    /\ nreq' = nreq + 1
    /\ lastRes' = NoRes
    /\ UNCHANGED bootVars

\* the partial update the hosted-payment handler merges
HostedUpdates(out) ==
  IF out.ok
  THEN [pawapayResponse |-> JSONstringify(out.data, SessionKeys)]
  ELSE [status |-> "FAILED", errorMessage |-> ErrorMessage(out)]

\* the gateway answers or fails: await storage.updateTransaction
HostedReply(h) ==
  /\ hs[h] # Idle
  /\ hs[h].pc = "gw"
  /\ ~JobQueued
  /\ hs[h].kind = "hosted"
  /\ \E out \in GwOutcomes(SessionPayloads), now \in Now :
       /\ transactions' =
            updateTransaction(transactions, hs[h].id, HostedUpdates(out), now)
       /\ clock' = IF Has(transactions, hs[h].id) THEN now ELSE clock
       /\ call' = [op |-> "update", id |-> hs[h].id, arg |-> HostedUpdates(out),
                   by |-> "hosted"]
       /\ hs' = [hs EXCEPT ![h].pc = "written", ![h].gw = out]
       /\ gwCall' = GwReply(hs[h].id, out)
  /\ lastRes' = NoRes
  /\ UNCHANGED <<nextId, sent, nreq>>
  /\ UNCHANGED bootVars

\* the response of the hosted-payment handler
HostedResponse(id, out) ==
  IF out.ok
  THEN [code |-> 200, kind |-> "hosted",
        body |-> [transactionId |-> id, redirectUrl |-> out.data.redirectUrl]]
  ELSE [code |-> 500, kind |-> "hosted",
        body |-> [transactionId |-> id, error |-> ErrorMessage(out)]]

\* res.json(...) / res.status(500).json(...): the handler ends
HostedRespond(h) ==
  /\ hs[h] # Idle
  /\ hs[h].pc = "written"
  /\ hs[h].kind = "hosted"
  /\ lastRes' = HostedResponse(hs[h].id, hs[h].gw)
  /\ hs' = [hs EXCEPT ![h] = Idle]
  /\ call' = NoCall
  /\ gwCall' = NoGwCall
  /\ UNCHANGED <<transactions, clock, nextId, sent, nreq>>
  /\ UNCHANGED bootVars

\* ----- GET /api/deposits/:id/status, /api/payouts/:id/status, /api/payment-status/:id
StatusKinds == {"depositStatus", "payoutStatus", "paymentStatus"}

\* the routes that read the record and then ask the gateway for its status
LookupKinds == StatusKinds \cup {"return"}

\* the endpoint of the status call of each route
StatusEndpoint(kind) ==
  IF kind = "payoutStatus" THEN "GET /payouts/:id" ELSE "GET /deposits/:id"

\* the routes that begin with storage.getTransaction(id)
ReadKinds == LookupKinds \cup {"transaction"}

\* (mutant) an unknown id is answered as a failed transaction
LookupNotFound_asFailed ==
  \E kind \in ReadKinds, id \in Ids :
    /\ Arrives
    /\ getTransaction(transactions, id) = NoTx
    /\ lastRes' = [code |-> 200, kind |-> kind,
                   body |-> [transactionId |-> id, status |-> "FAILED"]]
    /\ call' = [op |-> "get", id |-> id, by |-> kind]
    /\ nreq' = nreq + 1
    /\ gwCall' = NoGwCall
    /\ UNCHANGED <<transactions, clock, nextId, hs, sent>>
    /\ UNCHANGED bootVars

\* await storage.getTransaction(id) finds nothing: 404
LookupNotFound ==
  \E kind \in ReadKinds, id \in Ids :
    /\ Arrives
    /\ getTransaction(transactions, id) = NoTx
    /\ lastRes' = [code |-> 404, kind |-> kind,
                   body |-> [error |-> "Transaction not found"]]
    /\ call' = [op |-> "get", id |-> id, by |-> kind]
    /\ nreq' = nreq + 1
    /\ gwCall' = NoGwCall
    /\ UNCHANGED <<transactions, clock, nextId, hs, sent>>
    /\ UNCHANGED bootVars

\* await storage.getTransaction(id) finds the record; then callPawaPayAPI is
\* entered and the status request leaves for the gateway
LookupStart ==
  \E kind \in LookupKinds, id \in Ids :
    /\ CanAccept
    /\ getTransaction(transactions, id) # NoTx
    /\ hs' = [hs EXCEPT ![NewSlot] =
                Handler(kind, "gw", id, getTransaction(transactions, id), NoGw)]
    /\ call' = [op |-> "get", id |-> id, by |-> kind]
    /\ gwCall' = [endpoint |-> StatusEndpoint(kind), id |-> id]
    /\ nreq' = nreq + 1
    /\ lastRes' = NoRes
    /\ UNCHANGED <<transactions, clock, nextId, sent>>
    /\ UNCHANGED bootVars

\* ------------------------------------------------ GET /api/transactions/:id
\* the route is registered twice with the same path; the router runs the
\* registrations in order and the first one answers without calling next()
TransactionRoutes == <<"details", "safeDetails">>
Dispatched == TransactionRoutes[1]

\* Date.prototype.toJSON: the ISO string of the time
IsoString(time) == "T" \o ToString(time)

\* res.json(obj): a Date is written as its ISO string, and a property whose
\* value is undefined is left out
Dates == {"created", "updated"}
ResJson(obj) ==
  [f \in {g \in DOMAIN obj : g \in Dates \/ obj[g] # Undefined} |->
     IF f \in Dates THEN IsoString(obj[f]) ELSE obj[f]]

\* first registration: res.json(transaction)
Details(transaction) == ResJson(transaction)

\* second registration: res.json of the ten fields it names
SafeFields ==
  {"id", "type", "status", "amount", "currency", "country", "phoneNumber",
   "provider", "created", "updated"}

SafeDetails(transaction) == ResJson([f \in SafeFields |-> transaction[f]])

\* await storage.getTransaction(id) finds the record: res.json(...)
TransactionFound ==
  \E id \in Ids :
    /\ Arrives
    /\ getTransaction(transactions, id) # NoTx
    /\ LET transaction == getTransaction(transactions, id)
       IN  lastRes' = [code |-> 200, kind |-> "transaction",
                       body |-> IF Dispatched = "details"
                                THEN Details(transaction)
                                ELSE SafeDetails(transaction)]
    /\ call' = [op |-> "get", id |-> id, by |-> "transaction"]
    /\ nreq' = nreq + 1
    /\ gwCall' = NoGwCall
    /\ UNCHANGED <<transactions, clock, nextId, hs, sent>>
    /\ UNCHANGED bootVars

\* (mutant) the status check appends the gateway response to the stored one
\* and leaves the status alone
StatusUpdates_appendsResponse(kind, tx, data) ==
  [pawapayResponse |->
     Or(tx.pawapayResponse, "") \o JSONstringify(data, PayloadKeys),
   providerTransactionId |-> data.providerTransactionId]

\* the partial update a status check merges when the status changed
StatusUpdates(kind, tx, data) ==
  [status |-> data.status,
   pawapayResponse |-> JSONstringify(data, PayloadKeys),
   providerTransactionId |->
     IF kind = "paymentStatus"
     THEN Or(data.providerTransactionId, tx.providerTransactionId)
     ELSE data.providerTransactionId]

\* (mutant) a failed status call is answered with the failure as the status
StatusResponse_reportsFailure(kind, id, tx, out) ==
  [code |-> 200, kind |-> kind,
   body |->
     IF out.ok
     THEN out.data
     ELSE [transactionId |-> id, status |-> "FAILED",
           error |-> ErrorMessage(out)]]

\* the body a status check answers with
StatusResponse(kind, id, tx, out) ==
  [code |-> 200, kind |-> kind,
   body |->
     IF kind = "paymentStatus"
     THEN IF out.ok
          THEN [transactionId |-> id, status |-> out.data.status,
                providerTransactionId |-> out.data.providerTransactionId]
          ELSE [transactionId |-> id, status |-> tx.status,
                providerTransactionId |-> tx.providerTransactionId]
     ELSE IF out.ok
          THEN out.data
          ELSE [transactionId |-> id, status |-> tx.status,
                error |-> ErrorMessage(out)]]

\* the gateway reports a status other than the one read: await
\* storage.updateTransaction, then res.json(...).  What is sent after the
\* await depends on the handler's own variables alone, so the response is
\* taken in the same step as the write
StatusReplyChanged(h) ==
  /\ hs[h] # Idle
  /\ hs[h].pc = "gw"
  /\ ~JobQueued
  /\ hs[h].kind \in StatusKinds
  /\ \E out \in GwOutcomes(GatewayPayloads), now \in Now :
       /\ out.ok
       /\ out.data.status # hs[h].tx.status
       /\ LET updates == StatusUpdates(hs[h].kind, hs[h].tx, out.data)
          IN  /\ transactions' = updateTransaction(transactions, hs[h].id, updates, now)
              /\ call' = [op |-> "update", id |-> hs[h].id, arg |-> updates,
                          by |-> hs[h].kind]
       /\ clock' = IF Has(transactions, hs[h].id) THEN now ELSE clock
       /\ lastRes' = StatusResponse(hs[h].kind, hs[h].id, hs[h].tx, out)
       /\ gwCall' = GwReply(hs[h].id, out)
  /\ hs' = [hs EXCEPT ![h] = Idle]
  /\ UNCHANGED <<nextId, sent, nreq>>
  /\ UNCHANGED bootVars

\* the gateway reports the status read, or the call fails: answer at once
StatusReplySame(h) ==
  /\ hs[h] # Idle
  /\ hs[h].pc = "gw"
  /\ ~JobQueued
  /\ hs[h].kind \in StatusKinds
  /\ \E out \in GwOutcomes(GatewayPayloads) :
       /\ out.ok => out.data.status = hs[h].tx.status
       /\ lastRes' = StatusResponse(hs[h].kind, hs[h].id, hs[h].tx, out)
       /\ gwCall' = GwReply(hs[h].id, out)
  /\ hs' = [hs EXCEPT ![h] = Idle]
  /\ call' = NoCall
  /\ UNCHANGED <<transactions, clock, nextId, sent, nreq>>
  /\ UNCHANGED bootVars

\* A status check that runs from its read to its answer with no other
\* handler in between: the store it leaves
StatusCheck(txs, kind, id, out, now) ==
  LET transaction == getTransaction(txs, id)
  IN  IF transaction = NoTx THEN txs
      ELSE IF ~out.ok THEN txs
      ELSE IF out.data.status # transaction.status
           THEN updateTransaction(txs, id,
                                  StatusUpdates(kind, transaction, out.data), now)
           ELSE txs

\* ------------------------------------------------------ GET /payment-return
\* no depositId in the query: 400
ReturnMissingId ==
  /\ Arrives
  /\ lastRes' = [code |-> 400, kind |-> "return",
                 body |-> [error |-> "Missing or invalid depositId"]]
  /\ nreq' = nreq + 1
  /\ call' = NoCall
  /\ gwCall' = NoGwCall
  /\ UNCHANGED <<transactions, clock, nextId, hs, sent>>
  /\ UNCHANGED bootVars

\* JSON.stringify of the note written when the status call failed
FallbackNote(out) ==
  JSONstringify([note |-> "Status check failed in sandbox, assumed completed",
                 originalError |-> ErrorMessage(out)],
                <<"note", "originalError">>)

\* (mutant) a failed status call leaves the stored status as it is
ReturnUpdates_keepsStatus(tx, out) ==
  IF out.ok
  THEN [status |-> out.data.status,
        pawapayResponse |-> JSONstringify(out.data, PayloadKeys),
        providerTransactionId |-> out.data.providerTransactionId,
        country |-> Or(out.data.country, tx.country)]
  ELSE [pawapayResponse |-> FallbackNote(out)]

\* the partial update the return handler merges
ReturnUpdates(tx, out) ==
  IF out.ok
  THEN [status |-> out.data.status,
        pawapayResponse |-> JSONstringify(out.data, PayloadKeys),
        providerTransactionId |-> out.data.providerTransactionId,
        country |-> Or(out.data.country, tx.country)]
  ELSE [status |-> "COMPLETED", pawapayResponse |-> FallbackNote(out)]

\* (mutant) every status but FAILED goes to the receipt
ReturnLocation_failedOnly(id, out) ==
  IF out.ok
  THEN IF out.data.status # "FAILED"
       THEN "/receipt?id=" \o id
       ELSE "/payment-failed?id=" \o id
  ELSE "/receipt?id=" \o id

\* where the return handler sends the browser
ReturnLocation(id, out) ==
  IF out.ok
  THEN IF out.data.status = "COMPLETED"
       THEN "/receipt?id=" \o id
       ELSE "/payment-failed?id=" \o id
  ELSE "/receipt?id=" \o id

\* the gateway answers or fails: await storage.updateTransaction, then
\* res.redirect(...)
ReturnReply(h) ==
  /\ hs[h] # Idle
  /\ hs[h].pc = "gw"
  /\ ~JobQueued
  /\ hs[h].kind = "return"
  /\ \E out \in GwOutcomes(GatewayPayloads), now \in Now :
       /\ LET updates == ReturnUpdates(hs[h].tx, out)
          IN  /\ transactions' = updateTransaction(transactions, hs[h].id, updates, now)
              /\ call' = [op |-> "update", id |-> hs[h].id, arg |-> updates,
                          by |-> hs[h].kind]
       /\ clock' = IF Has(transactions, hs[h].id) THEN now ELSE clock
       /\ lastRes' = [code |-> 302, kind |-> "return", id |-> hs[h].id,
                      location |-> ReturnLocation(hs[h].id, out)]
       /\ gwCall' = GwReply(hs[h].id, out)
  /\ hs' = [hs EXCEPT ![h] = Idle]
  /\ UNCHANGED <<nextId, sent, nreq>>
  /\ UNCHANGED bootVars

\* -------------------------------------------------------- POST /api/callback
CallbackBody(d, q, p) ==
  [depositId |-> d, payoutId |-> q, status |-> p.status,
   providerTransactionId |-> p.providerTransactionId, country |-> p.country]

\* req.body of the webhook: whatever the caller posts.  A deposit callback
\* with each payload; a payout callback, one naming two transactions and one
\* naming none with the completed payload
CallbackBodies ==
  { CallbackBody(d, Undefined, p) : d \in Ids, p \in CallbackPayloads }
  \cup
  { CallbackBody(d, q, p) :
      d \in Ids \cup {Undefined}, q \in Ids \cup {Undefined},
      p \in {c \in CallbackPayloads : c.status = "COMPLETED"} }

CallbackKeys ==
  <<"depositId", "payoutId", "status", "providerTransactionId", "country">>

\* (mutant) the payout id is preferred
CallbackId_payoutFirst(callbackData) ==
  Or(callbackData.payoutId, callbackData.depositId)

\* callbackData.depositId || callbackData.payoutId
CallbackId(callbackData) == Or(callbackData.depositId, callbackData.payoutId)

\* (mutant) the webhook records the payload and leaves the status alone
CallbackUpdates_keepsStatus(callbackData) ==
  [pawapayResponse |-> JSONstringify(callbackData, CallbackKeys),
   providerTransactionId |-> callbackData.providerTransactionId,
   country |-> Or(callbackData.country, "")]

\* the partial update the webhook merges
CallbackUpdates(callbackData) ==
  [status |-> callbackData.status,
   pawapayResponse |-> JSONstringify(callbackData, CallbackKeys),
   providerTransactionId |-> callbackData.providerTransactionId,
   country |-> Or(callbackData.country, "")]

\* no transaction id in the payload: 400
CallbackNoId ==
  \E callbackData \in CallbackBodies :
    /\ Arrives
    /\ ~Truthy(CallbackId(callbackData))
    /\ lastRes' = [code |-> 400, kind |-> "callback",
                   body |-> [error |-> "No transaction ID in callback"]]
    /\ nreq' = nreq + 1
    /\ call' = NoCall
    /\ gwCall' = NoGwCall
    /\ UNCHANGED <<transactions, clock, nextId, hs, sent>>
    /\ UNCHANGED bootVars

\* await storage.updateTransaction(transactionId, ...), then
\* res.json({ success: true })
CallbackUpdate ==
  \E callbackData \in CallbackBodies, now \in Now :
    /\ Arrives
    /\ Truthy(CallbackId(callbackData))
    /\ LET id == CallbackId(callbackData)
           updates == CallbackUpdates(callbackData)
       IN  /\ transactions' = updateTransaction(transactions, id, updates, now)
           /\ call' = [op |-> "update", id |-> id, arg |-> updates, by |-> "callback",
                      req |-> callbackData]
           /\ clock' = IF Has(transactions, id) THEN now ELSE clock
    /\ lastRes' = [code |-> 200, kind |-> "callback", body |-> [success |-> TRUE]]
    /\ nreq' = nreq + 1
    /\ gwCall' = NoGwCall
    /\ UNCHANGED <<nextId, hs, sent>>
    /\ UNCHANGED bootVars

\* --------- GET /api/active-config/:country, POST /api/predict-provider
\* the routes that hand a gateway answer to the caller
ProxyKinds == {"activeConfig", "predictProvider"}

\* the endpoint each of them calls
ProxyEndpoint(kind) ==
  IF kind = "activeConfig" THEN "GET /active-conf" ELSE "POST /predict-provider"

\* req.body of POST /api/predict-provider
PredictBodies == {[phoneNumber |-> "250783456789"], [phoneNumber |-> Undefined]}

\* predictProviderRequestSchema.parse does not throw
ValidPredict(body) ==
  /\ body.phoneNumber # Undefined
  /\ Len(body.phoneNumber) >= 10

\* Parsed JSON bodies of the gateway's answers to these calls
ProxyPayloads == {[provider |-> "MTN_MOMO_RWA", country |-> "RWA"]}

\* predictProviderRequestSchema.parse throws: 400 from the catch block
PredictInvalid ==
  \E body \in PredictBodies :
    /\ Arrives
    /\ ~ValidPredict(body)
    /\ lastRes' = [code |-> 400, kind |-> "predictProvider",
                   body |-> [error |-> "invalid"]]
    /\ nreq' = nreq + 1
    /\ call' = NoCall
    /\ gwCall' = NoGwCall
    /\ UNCHANGED <<transactions, clock, nextId, hs, sent>>
    /\ UNCHANGED bootVars

\* the request leaves for the gateway; the handler awaits callPawaPayAPI
ProxyStart ==
  \E kind \in ProxyKinds :
    /\ CanAccept
    /\ kind = "predictProvider" => \E body \in PredictBodies : ValidPredict(body)
    /\ hs' = [hs EXCEPT ![NewSlot] = Handler(kind, "gw", Undefined, NoTx, NoGw)]
    /\ gwCall' = [endpoint |-> ProxyEndpoint(kind), id |-> Undefined]
    /\ call' = NoCall
    /\ nreq' = nreq + 1
    /\ lastRes' = NoRes
    /\ UNCHANGED <<transactions, clock, nextId, sent>>
    /\ UNCHANGED bootVars

\* res.json(config) / res.json(prediction), or the catch block's answer: 500
\* from active-config, 400 from predict-provider
ProxyResponse(kind, out) ==
  IF out.ok
  THEN [code |-> 200, kind |-> kind, body |-> out.data]
  ELSE [code |-> IF kind = "activeConfig" THEN 500 ELSE 400, kind |-> kind,
        body |-> [error |-> ErrorMessage(out)]]

\* (mutant) the answer of the gateway is kept in the provider catalog
ProxyReply_storesAnswer(h) ==
  /\ hs[h] # Idle
  /\ hs[h].pc = "gw"
  /\ ~JobQueued
  /\ hs[h].kind \in ProxyKinds
  /\ \E out \in GwOutcomes(ProxyPayloads) :
       /\ lastRes' = ProxyResponse(hs[h].kind, out)
       /\ gwCall' = GwReply(hs[h].id, out)
       /\ providers' =
            IF out.ok
            THEN createProvider(providers,
                                [code |-> out.data.provider,
                                 displayName |-> "Provider",
                                 country |-> out.data.country,
                                 currency |-> "RWF"], "p1")
            ELSE providers
  /\ hs' = [hs EXCEPT ![h] = Idle]
  /\ call' = NoCall
  /\ UNCHANGED <<transactions, clock, nextId, sent, nreq, seeded, env, server,
                 page>>

\* callPawaPayAPI returns or throws
ProxyReply(h) ==
  /\ hs[h] # Idle
  /\ hs[h].pc = "gw"
  /\ ~JobQueued
  /\ hs[h].kind \in ProxyKinds
  /\ \E out \in GwOutcomes(ProxyPayloads) :
       /\ lastRes' = ProxyResponse(hs[h].kind, out)
       /\ gwCall' = GwReply(hs[h].id, out)
  /\ hs' = [hs EXCEPT ![h] = Idle]
  /\ call' = NoCall
  /\ UNCHANGED <<transactions, clock, nextId, sent, nreq>>
  /\ UNCHANGED bootVars

\* ------------------- GET /api/transactions, GET /api/providers/:country
\* res.json(array): each element as res.json writes it
ResJsonList(list) == [i \in 1..Len(list) |-> ResJson(list[i])]

\* await storage.getAllTransactions(), then res.json(transactions)
ListTransactions ==
  /\ Arrives
  /\ lastRes' = [code |-> 200, kind |-> "transactions",
                 body |-> ResJsonList(getAllTransactions(transactions))]
  /\ call' = [op |-> "getAll", by |-> "transactions"]
  /\ nreq' = nreq + 1
  /\ gwCall' = NoGwCall
  /\ UNCHANGED <<transactions, clock, nextId, hs, sent>>
  /\ UNCHANGED bootVars

\* await storage.getProvidersByCountry(country), then res.json(providers)
ListProviders ==
  \E country \in Countries :
    /\ Arrives
    /\ lastRes' = [code |-> 200, kind |-> "providers",
                   body |-> getProvidersByCountry(providers, country)]
    /\ call' = [op |-> "getProvidersByCountry", by |-> "providers"]
    /\ nreq' = nreq + 1
    /\ gwCall' = NoGwCall
    /\ UNCHANGED <<transactions, clock, nextId, hs, sent>>
    /\ UNCHANGED bootVars

\* ------------------------------------------------- startup on its own
\* the process starts: new MemStorage() has run initializeProviders up to its
\* first await, and registerRoutes is about to run
InitStartup ==
  /\ transactions = <<>>
  /\ clock = 0
  /\ call = NoCall
  /\ nextId = 0
  /\ hs = [h \in 1..MaxHandlers |-> Idle]
  /\ lastRes = NoRes
  /\ gwCall = NoGwCall
  /\ sent = {}
  /\ nreq = 0
  /\ providers = Seeded(1)
  /\ seeded = 1
  /\ env \in Envs
  /\ server = [state |-> "down"]
  /\ page = NoPage

\* await registerRoutes(app)
Register ==
  /\ server.state = "down"
  /\ server' = registerRoutes(env)
  /\ UNCHANGED <<transactions, clock, call, nextId, hs, lastRes, gwCall, sent,
                 nreq, providers, seeded, env, page>>

\* callPawaPayAPI builds its request: the URL and the Authorization header
CallGateway ==
  /\ server.state = "registered"
  /\ ~SeedQueued
  /\ gwCall' = [endpoint |-> "GET /active-conf",
                url |-> server.API_BASE \o "/active-conf",
                Authorization |-> "Bearer " \o server.API_TOKEN]
  /\ UNCHANGED <<transactions, clock, call, nextId, hs, lastRes, sent, nreq,
                 providers, seeded, env, server, page>>

\* GET /api/providers/:country is served by the registered routes
ServeProviders ==
  /\ server.state = "registered"
  /\ ListProviders

NextStartup == ProviderSeed \/ Register \/ CallGateway \/ ServeProviders

SpecStartup == InitStartup /\ [][NextStartup]_vars

\* ------------------------------------------------------------ the server
Next ==
  \/ InitiateInvalid
  \/ InitiateCreate
  \/ HostedCreate
  \/ LookupNotFound
  \/ LookupStart
  \/ TransactionFound
  \/ ListTransactions
  \/ ListProviders
  \/ PredictInvalid
  \/ ProxyStart
  \/ ReturnMissingId
  \/ CallbackNoId
  \/ CallbackUpdate
  \/ \E h \in Slots :
       \/ InitiateReply(h)
       \/ InitiateRespond(h)
       \/ HostedReply(h)
       \/ HostedRespond(h)
       \/ StatusReplyChanged(h)
       \/ StatusReplySame(h)
       \/ ReturnReply(h)
       \/ ProxyReply(h)

Spec == Init /\ [][Next]_vars

\* ------------------------------ client: the receipt page (pages/receipt.tsx)
\* String.prototype.toUpperCase on the status strings that occur
Upper(str) ==
  CASE str = "completed" -> "COMPLETED"
    [] str = "pending" -> "PENDING"
    [] OTHER -> str

\* data.status in the body of a 200 answer of GET /api/payment-status/:id
PollStatuses ==
  {"PENDING", "ACCEPTED", "COMPLETED", "FAILED", "pending", "completed",
   Undefined}

\* receiptData.status once the query of /api/transactions/:id has loaded
ReceiptStatuses == {"PENDING", "COMPLETED", "FAILED"}

\* (liveStatus || receiptData?.status || '').toUpperCase()
EffectiveStatus(p) == Upper(Or(Or(p.liveStatus, p.receiptStatus), ""))

\* the auto-print effect, run after a render that changed receiptData,
\* liveStatus or autoPrinted: setAutoPrinted(true) and a timeout that calls
\* window.print()
AutoPrint(p) ==
  IF p.mounted /\ ~p.autoPrinted /\ EffectiveStatus(p) = "COMPLETED"
  THEN [p EXCEPT !.autoPrinted = TRUE, !.prints = @ + 1]
  ELSE p

\* the page is mounted with ?id=..., transactionId is set and the poll
\* effect has called poll(), which awaits its first fetch
InitReceipt ==
  /\ transactions = <<>>
  /\ clock = 0
  /\ call = NoCall
  /\ nextId = 0
  /\ hs = [h \in 1..MaxHandlers |-> Idle]
  /\ lastRes = NoRes
  /\ gwCall = NoGwCall
  /\ sent = {}
  /\ nreq = 0
  /\ providers = Seeded(Len(DefaultProviders))
  /\ seeded = Len(DefaultProviders)
  /\ env = NoEnv
  /\ server = registerRoutes(NoEnv)
  /\ page = [mounted |-> TRUE, transactionId |-> "id1", pc |-> "fetching",
             cancelled |-> FALSE, liveStatus |-> Null,
             receiptStatus |-> Undefined, autoPrinted |-> FALSE,
             prints |-> 0, polls |-> 1]

\* fetch rejects: the empty catch, then window.setTimeout(poll, 2000)
FetchThrows ==
  /\ page.pc = "fetching"
  /\ page' = [page EXCEPT !.pc = "timer"]
  /\ UNCHANGED <<storeVars, handlerVars, providers, seeded, env, server>>

\* if (!res.ok) return
FetchNotOk ==
  /\ page.pc = "fetching"
  /\ page' = [page EXCEPT !.pc = "stopped"]
  /\ UNCHANGED <<storeVars, handlerVars, providers, seeded, env, server>>

\* res.json() resolves: return if cancelled; else setLiveStatus for a
\* non-empty status, stop on COMPLETED or FAILED, otherwise set the timer
FetchJson ==
  /\ page.pc = "fetching"
  /\ \E s \in PollStatuses :
       LET status == Upper(Or(s, ""))
       IN  page' =
             IF page.cancelled
             THEN [page EXCEPT !.pc = "stopped"]
             ELSE AutoPrint(
                    [page EXCEPT
                       !.liveStatus = IF status # "" THEN status ELSE @,
                       !.pc = IF status \in {"COMPLETED", "FAILED"}
                              THEN "stopped" ELSE "timer"])
  /\ UNCHANGED <<storeVars, handlerVars, providers, seeded, env, server>>

\* the timeout fires: poll() runs up to its fetch
TimerFires ==
  /\ page.pc = "timer"
  /\ page.polls < MaxPolls
  /\ page' = [page EXCEPT !.pc = "fetching", !.polls = @ + 1]
  /\ UNCHANGED <<storeVars, handlerVars, providers, seeded, env, server>>

\* the effect's cleanup: cancelled = true; if (timer) clearTimeout(timer)
Unmount ==
  /\ page.mounted
  /\ page' = [page EXCEPT !.mounted = FALSE, !.cancelled = TRUE,
                          !.pc = IF @ = "timer" THEN "stopped" ELSE @]
  /\ UNCHANGED <<storeVars, handlerVars, providers, seeded, env, server>>

\* useQuery delivers the transaction
QueryLoads ==
  /\ page.mounted
  /\ page.receiptStatus = Undefined
  /\ \E s \in ReceiptStatuses :
       page' = AutoPrint([page EXCEPT !.receiptStatus = s])
  /\ UNCHANGED <<storeVars, handlerVars, providers, seeded, env, server>>

NextReceipt ==
  \/ FetchThrows
  \/ FetchNotOk
  \/ FetchJson
  \/ TimerFires
  \/ Unmount
  \/ QueryLoads

SpecReceipt == InitReceipt /\ [][NextReceipt]_vars

\* ------------------------------------------------------------------ claims

\* C1: for every stored transaction T and every partial update F applied with
\* updateTransaction(T.id, F), every field of T that is not in F keeps its
\* previous value, `updated` excepted; no other record changes.
C1_PartialUpdateFrame ==
  [][ call'.op = "update" =>
        /\ DOMAIN transactions' = DOMAIN transactions
        /\ \A id \in DOMAIN transactions : \A f \in Fields \ {"updated"} :
             (id # call'.id \/ f \notin DOMAIN call'.arg)
               => transactions'[id][f] = transactions[id][f] ]_vars

\* C1 witness: a two-field update has been applied to a stored record: the
\* fields it names hold the new values, the description given at creation is
\* still there and `updated` has moved.
C1_Witness ==
  /\ call.op = "update"
  /\ Has(transactions, call.id)
  /\ DOMAIN call.arg = {"status", "errorMessage"}
  /\ transactions[call.id].status = "COMPLETED"
  /\ transactions[call.id].errorMessage = "fetch failed"
  /\ transactions[call.id].description = "rent"
  /\ transactions[call.id].amount = "1000"
  /\ transactions[call.id].updated > transactions[call.id].created

\* the step just taken is the createTransaction of a validated deposit or
\* payout request: nothing the gateway says has been merged yet
JustCreated == call.op = "create" /\ call.by \in InitiateKinds

\* the record a fetch of the id the handler generated returns has the fields a
\* fresh record has, the description left aside
FreshRecord(t, req) ==
  /\ t # NoTx
  /\ t.id = call.id
  /\ t.status = "PENDING"
  /\ t.amount = req.amount
  /\ t.currency = req.currency
  /\ t.phoneNumber = req.phoneNumber
  /\ t.provider = req.provider
  /\ t.country = ""
  /\ t.pawapayResponse = Null
  /\ t.providerTransactionId = Null
  /\ t.errorMessage = Null

\* C2 as stated: right after a valid deposit or payout request has created its
\* record, fetching the id returns a PENDING record whose amount, currency,
\* phoneNumber, provider and description equal the request's, with an empty
\* country and null pawapayResponse, providerTransactionId and errorMessage.
C2_CreateThenFetch ==
  JustCreated =>
    LET t == getTransaction(transactions, call.id)
    IN  /\ FreshRecord(t, call.req)
        /\ t.description = call.req.description

\* C2 (amended): as above, except that the stored description equals the
\* request's only when the request gives a non-empty one; a request that omits
\* the description, or gives the empty string, is stored with a null one.
C2_CreateThenFetchAmended ==
  JustCreated =>
    LET t == getTransaction(transactions, call.id)
    IN  /\ FreshRecord(t, call.req)
        /\ call.req.description \notin {Undefined, ""}
             => t.description = call.req.description
        /\ call.req.description \in {Undefined, ""} => t.description = Null

C2_Witness ==
  /\ JustCreated
  /\ call.by = "payout"
  /\ call.req.description = ""
  /\ getTransaction(transactions, call.id).description = Null
  /\ getTransaction(transactions, call.id).status = "PENDING"
  /\ getTransaction(transactions, call.id).amount = "1000"

\* the routes that create a record and then call the gateway
CreatingKinds == InitiateKinds \cup {"hosted"}

\* C3: in the deposit, payout and hosted-payment flows, when the gateway call
\* fails the handler writes status FAILED and a non-null errorMessage to the
\* record it created, and the response it then sends is a 500 whose
\* transactionId is that record's id.
C3_GatewayFailureOnInitiate ==
  [][ \A h \in Slots :
        (hs[h] # Idle /\ hs[h].kind \in CreatingKinds) =>
          /\ (hs[h].pc = "gw" /\ hs'[h] # hs[h] /\ ~gwCall'.out.ok) =>
               /\ gwCall'.id = hs[h].id
               /\ call'.op = "update" /\ call'.id = hs[h].id
               /\ Has(transactions', hs[h].id)
               /\ transactions'[hs[h].id].status = "FAILED"
               /\ transactions'[hs[h].id].errorMessage \notin {Null, Undefined}
               /\ hs'[h] # Idle /\ hs'[h].pc = "written"
          /\ (hs[h].pc = "written" /\ ~hs[h].gw.ok /\ hs'[h] # hs[h]) =>
               /\ lastRes'.code = 500
               /\ lastRes'.body.transactionId = hs[h].id
               /\ Has(transactions, lastRes'.body.transactionId) ]_vars

C3_Witness ==
  /\ lastRes.code = 500
  /\ lastRes.kind = "hosted"
  /\ Has(transactions, lastRes.body.transactionId)
  /\ transactions[lastRes.body.transactionId].status = "FAILED"
  /\ transactions[lastRes.body.transactionId].errorMessage = "fetch failed"
  /\ \E id \in DOMAIN transactions :
       /\ transactions[id].type = "PAYOUT"
       /\ transactions[id].status = "FAILED"
       /\ transactions[id].errorMessage = "fetch failed"

\* C4: in the three status-check operations, when the id is known and the
\* gateway call fails, the response is a 200 that carries the status the
\* handler read from the store for that transaction before the call, and the
\* handler makes no write to the store.
C4_StatusCheckFallback ==
  [][ \A h \in Slots :
        /\ (hs[h] = Idle /\ hs'[h] # Idle /\ hs'[h].kind \in StatusKinds) =>
             /\ Has(transactions, hs'[h].id)
             /\ hs'[h].tx = transactions[hs'[h].id]
             /\ transactions' = transactions
        /\ ( /\ hs[h] # Idle /\ hs[h].kind \in StatusKinds
             /\ hs'[h] # hs[h]
             /\ ~gwCall'.out.ok ) =>
             /\ lastRes'.code = 200
             /\ lastRes'.kind = hs[h].kind
             /\ lastRes'.body.transactionId = hs[h].id
             /\ lastRes'.body.status = hs[h].tx.status
             /\ call' = NoCall
             /\ transactions' = transactions ]_vars

C4_Witness ==
  /\ gwCall.endpoint = "reply"
  /\ ~gwCall.out.ok
  /\ lastRes.code = 200
  /\ lastRes.kind = "paymentStatus"
  /\ lastRes.body.status = "ACCEPTED"
  /\ call = NoCall
  /\ Has(transactions, gwCall.id)
  /\ transactions[gwCall.id].status = "ACCEPTED"

\* the one transaction a webhook payload names
Named(callbackData) ==
  IF callbackData.payoutId = Undefined THEN callbackData.depositId
  ELSE IF callbackData.depositId = Undefined THEN callbackData.payoutId
  ELSE Undefined

\* C5: a webhook whose payload names a stored transaction X (by depositId or
\* by payoutId) with status S sets the stored status of X to S, whatever the
\* status of X was before, and leaves every other transaction unchanged.
C5_WebhookSetsStatus ==
  [][ (call'.op = "update" /\ call'.by = "callback"
       /\ Has(transactions, Named(call'.req))) =>
        LET X == Named(call'.req)
        IN  /\ DOMAIN transactions' = DOMAIN transactions
            /\ transactions'[X].status = call'.req.status
            /\ \A id \in DOMAIN transactions \ {X} :
                 transactions'[id] = transactions[id] ]_vars

C5_Witness ==
  /\ call.op = "update" /\ call.by = "callback"
  /\ call.req.depositId = Undefined
  /\ Has(transactions, call.req.payoutId)
  /\ call.req.status = "COMPLETED"
  /\ transactions[call.req.payoutId].status = "COMPLETED"
  /\ transactions[call.req.payoutId].errorMessage = "fetch failed"
  /\ \E id \in DOMAIN transactions : transactions[id].status = "FAILED"

\* C6: in every reachable state the status of every stored transaction is one
\* of PENDING, ACCEPTED, COMPLETED and FAILED.
C6_StatusInEnum ==
  \A id \in DOMAIN transactions : transactions[id].status \in StatusEnum

\* C7: in every reachable state every stored transaction whose status is FAILED
\* has a non-null errorMessage, whichever route wrote FAILED.
C7_FailedHasMessage ==
  \A id \in DOMAIN transactions :
    transactions[id].status = "FAILED"
      => transactions[id].errorMessage \notin {Null, Undefined}

\* C8: in every reachable state a stored transaction has a non-null
\* errorMessage only if its status is FAILED.
C8_MessageOnlyOnFailed ==
  \A id \in DOMAIN transactions :
    transactions[id].errorMessage \notin {Null, Undefined}
      => transactions[id].status = "FAILED"

\* the last step ended a /payment-return handler on the gateway's answer
Returned == lastRes.code = 302 /\ lastRes.kind = "return" /\ gwCall.endpoint = "reply"

\* C9: when GET /payment-return is called for a known depositId and the
\* gateway status call fails, the stored status of that transaction becomes
\* COMPLETED, whatever it was before, and the browser is redirected to the
\* receipt page, not to the failure page.
C9_ReturnFallbackCompletes ==
  (Returned /\ ~gwCall.out.ok) =>
    /\ gwCall.id = lastRes.id
    /\ Has(transactions, lastRes.id)
    /\ call.op = "update" /\ call.id = lastRes.id
    /\ transactions[lastRes.id].status = "COMPLETED"
    /\ lastRes.location = "/receipt?id=" \o lastRes.id
    /\ lastRes.location # "/payment-failed?id=" \o lastRes.id

C9_Witness ==
  /\ Returned /\ ~gwCall.out.ok
  /\ transactions[lastRes.id].status = "COMPLETED"
  /\ transactions[lastRes.id].errorMessage = "fetch failed"
  /\ lastRes.location = "/receipt?id=id1"

C11_ReturnRedirectByStatus ==
  Returned =>
    LET status == transactions[lastRes.id].status
    IN  /\ status \in {"COMPLETED", "ACCEPTED", "PENDING"}
             => lastRes.location = "/receipt?id=" \o lastRes.id
        /\ status = "FAILED"
             => lastRes.location = "/payment-failed?id=" \o lastRes.id

\* C12: every GET /payment-return request, whatever its input, ends in a
\* redirect to /receipt or to /payment-failed, never in a raw error response.
C12_ReturnAlwaysRedirects ==
  (lastRes # NoRes /\ lastRes.kind = "return") =>
    /\ lastRes.code = 302
    /\ \E id \in Ids :
         lastRes.location \in {"/receipt?id=" \o id, "/payment-failed?id=" \o id}

\* C13: a status-check, lookup or return-URL request for an id that is not in
\* the store is answered 404, issues no gateway call, starts no handler that
\* would issue one, and leaves the store unchanged.
C13_UnknownIdNotFound ==
  [][ (call'.op = "get" /\ ~Has(transactions, call'.id)) =>
        /\ call'.by \in ReadKinds
        /\ lastRes'.code = 404
        /\ "status" \notin DOMAIN lastRes'.body
        /\ gwCall' = NoGwCall
        /\ hs' = hs
        /\ transactions' = transactions ]_vars

C13_Witness ==
  /\ call.op = "get"
  /\ call.by = "paymentStatus"
  /\ call.id = "id2"
  /\ ~Has(transactions, "id2")
  /\ Has(transactions, "id1")
  /\ lastRes.code = 404
  /\ gwCall = NoGwCall

\* C14: a webhook callback that names a transaction id that is not in the
\* store is answered 404, never as a success.
C14_WebhookUnknownIdNotFound ==
  (call.op = "update" /\ call.by = "callback" /\ ~Has(transactions, call.id)) =>
    /\ lastRes.code = 404
    /\ lastRes.body # [success |-> TRUE]

\* C15: under every interleaving of webhook callbacks, status checks and
\* return-URL requests for the same id, at the moment a deposit or payout
\* handler sends its response the status stored for that id equals the status
\* the response reports: the gateway status on success, FAILED on failure.
C15_ResponseMatchesStore ==
  (lastRes # NoRes /\ lastRes.kind \in InitiateKinds /\ lastRes.code \in {200, 500}) =>
    LET id == lastRes.body.transactionId
    IN  /\ Has(transactions, id)
        /\ lastRes.code = 200 => transactions[id].status = lastRes.body.status
        /\ lastRes.code = 500 => transactions[id].status = "FAILED"

C15_Witness ==
  /\ lastRes # NoRes /\ lastRes.kind = "deposit" /\ lastRes.code = 200
  /\ lastRes.body.status = "ACCEPTED"
  /\ transactions[lastRes.body.transactionId].status = "ACCEPTED"
  /\ transactions[lastRes.body.transactionId].providerTransactionId = "ptx1"

\* C16: from every reachable store, a status check run twice in a row for the
\* same id, with the same gateway response both times and no other handler
\* in between, leaves after the second run the record it left after the
\* first, in every field except possibly `updated`.
C16_StatusCheckIdempotent ==
  \A kind \in StatusKinds, id \in DOMAIN transactions :
    \A out \in GwOutcomes(GatewayPayloads) :
      LET first == StatusCheck(transactions, kind, id, out, clock + 1)
          second == StatusCheck(first, kind, id, out, clock + 2)
      IN  /\ DOMAIN second = DOMAIN first
          /\ \A f \in Fields \ {"updated"} : second[id][f] = first[id][f]
          /\ \A other \in DOMAIN first \ {id} : second[other] = first[other]

\* a status check has just answered without writing, on a record that holds
\* the same gateway response from an earlier check that did write
C16_Witness ==
  /\ lastRes # NoRes /\ lastRes.kind \in StatusKinds
  /\ gwCall.endpoint = "reply" /\ gwCall.out.ok
  /\ call = NoCall
  /\ Has(transactions, gwCall.id)
  /\ transactions[gwCall.id].status = gwCall.out.data.status
  /\ transactions[gwCall.id].pawapayResponse
       = JSONstringify(gwCall.out.data, PayloadKeys)
  /\ transactions[gwCall.id].providerTransactionId = "ptx1"
  /\ StatusCheck(transactions, lastRes.kind, gwCall.id, gwCall.out, clock + 1)
       = transactions

\* C17: a request to POST /api/deposits, /api/payouts or /api/hosted-payment
\* whose body lacks a required field is rejected before any record is
\* created: no createTransaction is ever made for a body without a string
\* phoneNumber, amount or currency.
C17_InvalidBodyCreatesNothing ==
  (call.op = "create" /\ call.by \in CreatingKinds) =>
    /\ IsString(call.req.phoneNumber)
    /\ IsString(call.req.amount)
    /\ IsString(call.req.currency)

\* C18: no transaction is ever removed from the store, and the id, type and
\* created of a stored transaction never change after its creation, whichever
\* route updates the record.
C18_AppendOnly ==
  [][ \A id \in DOMAIN transactions :
        /\ Has(transactions', id)
        /\ transactions'[id].id = id
        /\ transactions'[id].id = transactions[id].id
        /\ transactions'[id].type = transactions[id].type
        /\ transactions'[id].created = transactions[id].created ]_vars

C18_Witness ==
  /\ call.op = "update" /\ call.by = "callback"
  /\ Has(transactions, call.id)
  /\ transactions[call.id].type = "PAYOUT"
  /\ transactions[call.id].updated > transactions[call.id].created
  /\ \E id \in DOMAIN transactions :
       /\ transactions[id].type = "DEPOSIT"
       /\ transactions[id].created < transactions[call.id].created

\* C19: createTransaction with an id that is already in the store fails or is
\* ignored: the record stored under that id is not replaced.
C19_CreateKeepsExisting ==
  [][ (call'.op = "create" /\ Has(transactions, call'.id)) =>
        transactions'[call'.id] = transactions[call'.id] ]_vars

\* C20: GET /api/transactions/:id for a known id returns only the safe subset
\* of fields (id, type, status, amount, currency, country, phoneNumber,
\* provider, created, updated), never pawapayResponse, errorMessage,
\* providerTransactionId or description.
C20_LookupReturnsSafeSubset ==
  (lastRes # NoRes /\ lastRes.kind = "transaction" /\ lastRes.code = 200) =>
    /\ DOMAIN lastRes.body \subseteq
         {"id", "type", "status", "amount", "currency", "country",
          "phoneNumber", "provider", "created", "updated"}
    /\ DOMAIN lastRes.body \cap
         {"pawapayResponse", "errorMessage", "providerTransactionId",
          "description"} = {}

\* the providers in a list a query returned
Elements(list) == {list[i] : i \in 1..Len(list)}

\* C21: getProvidersByCountry and getAllProviders never return a provider
\* whose isActive is false, whatever createProvider has put in the catalog;
\* getProvidersByCountry(c) returns only providers whose country is c.
C21_ProviderFiltering ==
  /\ \A p \in Elements(getAllProviders(providers)) :
       /\ p \in Elements(providers)
       /\ ~("isActive" \in DOMAIN p /\ p.isActive = FALSE)
  /\ \A c \in Countries :
       \A p \in Elements(getProvidersByCountry(providers, c)) :
         /\ p \in Elements(providers)
         /\ ~("isActive" \in DOMAIN p /\ p.isActive = FALSE)
         /\ p.country = c

C21_Witness ==
  /\ \E p \in Elements(providers) :
       /\ p.country = "RWA" /\ "isActive" \in DOMAIN p /\ p.isActive = FALSE
  /\ \E p \in Elements(providers) :
       /\ p.country = "UGA" /\ p.code = "MPESA" /\ "isActive" \notin DOMAIN p
  /\ Len(getProvidersByCountry(providers, "RWA")) = 1
  /\ Len(getProvidersByCountry(providers, "UGA")) = 2
  /\ Len(getAllProviders(providers)) = 4

\* C22: when NODE_ENV is production the routes are never registered, and so
\* no gateway request is ever built, with the placeholder 'your-api-token'
\* as the bearer token, whether PAWAPAY_API_TOKEN is unset, the bare
\* placeholder, or the placeholder behind a 'Bearer ' prefix.
C22_NoPlaceholderInProduction ==
  env.NODE_ENV = "production" =>
    /\ server.state = "registered" => server.API_TOKEN # "your-api-token"
    /\ gwCall # NoGwCall => gwCall.Authorization # "Bearer your-api-token"

\* C23 (as stated): a status check whose gateway call succeeds writes the
\* gateway status exactly when it differs from the status stored for the id
\* at the time of the reply, also when a webhook changed the stored status
\* since the handler read the record
C23_StatusCheckComparesStored ==
  [][\A h \in DOMAIN hs :
       (/\ hs[h] # Idle
        /\ hs[h].kind \in StatusKinds
        /\ hs'[h] = Idle
        /\ gwCall'.out.ok
        /\ Has(transactions, hs[h].id))
       => IF gwCall'.out.data.status # transactions[hs[h].id].status
          THEN /\ call' # NoCall
               /\ call'.op = "update"
               /\ transactions'[hs[h].id].status = gwCall'.out.data.status
          ELSE /\ call' = NoCall
               /\ transactions' = transactions]_vars

\* C24: when two updateTransaction calls on the same transaction are applied
\* one after the other, by whichever handlers, the stored status is the one
\* the call applied last wrote (the earlier call's if the last one names no
\* status), every column is the last call's value or else the value stored
\* before it, and every column either call names holds a value one of the
\* two calls wrote (updated is the time of the last call)
C24_LastWriterWins ==
  [][(/\ call.op = "update"
      /\ call'.op = "update"
      /\ call'.id = call.id
      /\ Has(transactions, call.id))
     => LET id == call.id
            first == call.arg
            last == call'.arg
            final == transactions'[id]
            Written(f) ==
              {first[g] : g \in DOMAIN first \cap {f}} \cup
              {last[g] : g \in DOMAIN last \cap {f}}
        IN  /\ "status" \in DOMAIN last => final.status = last.status
            /\ ("status" \notin DOMAIN last /\ "status" \in DOMAIN first)
                 => final.status = first.status
            /\ \A f \in Fields \ {"updated"} :
                 final[f] = IF f \in DOMAIN last THEN last[f]
                            ELSE transactions[id][f]
            /\ \A f \in (DOMAIN first \cup DOMAIN last) \ {"updated"} :
                 final[f] \in Written(f)]_vars

\* a status check read the record, the webhook then stored COMPLETED, and the
\* status check wrote COMPLETED over it, the initiating handler still waiting
C24_Witness ==
  \E id \in DOMAIN transactions, h \in DOMAIN hs :
    /\ hs[h] # Idle
    /\ hs[h].kind \in InitiateKinds
    /\ hs[h].pc = "gw"
    /\ hs[h].id = id
    /\ call.op = "update"
    /\ call.id = id
    /\ call.by \in StatusKinds
    /\ call.arg.status = "COMPLETED"
    /\ transactions[id].status = "COMPLETED"
    /\ transactions[id].country = "RWA"

\* C25: an updateTransaction call and any other call on the same id that
\* names none of its columns give, applied in either order, a record that
\* holds the columns of both calls and is the same in every column but
\* updated
C25_DisjointUpdatesCommute ==
  [][(call'.op = "update" /\ Has(transactions, call'.id))
     => LET id == call'.id
            G == call'.arg
        IN  \A F \in Partials :
              DOMAIN F \cap DOMAIN G = {} =>
                LET GF == updateTransaction(transactions', id, F, clock')[id]
                    FG == updateTransaction(
                            updateTransaction(transactions, id, F, clock),
                            id, G, clock')[id]
                IN  \A f \in Fields \ {"updated"} :
                      /\ FG[f] = GF[f]
                      /\ f \in DOMAIN F => FG[f] = F[f] /\ GF[f] = F[f]
                      /\ f \in DOMAIN G => FG[f] = G[f] /\ GF[f] = G[f]]_vars

\* a record that an update of country alone and an update of status and
\* errorMessage have both been applied to
C25_Witness ==
  /\ call.op = "update"
  /\ Has(transactions, call.id)
  /\ DOMAIN call.arg = {"status", "errorMessage"}
  /\ transactions[call.id].status = "COMPLETED"
  /\ transactions[call.id].errorMessage = "fetch failed"
  /\ transactions[call.id].country = "UGA"
  /\ transactions[call.id].pawapayResponse = Null

\* C26: whenever an initiate flow issues the gateway create call, the record
\* of the id it sends is stored with status PENDING, is the record the
\* handler has just created, that id was in no earlier create call, and
\* every id sent so far is the id of a stored record
C26_StoredBeforeSent ==
  [][(/\ gwCall' # gwCall
      /\ gwCall'.endpoint \in {CreateEndpoint(k) : k \in CreatingKinds})
     => /\ Has(transactions', gwCall'.id)
        /\ transactions'[gwCall'.id].status = "PENDING"
        /\ transactions'[gwCall'.id].id = gwCall'.id
        /\ call'.op = "create"
        /\ call'.id = gwCall'.id
        /\ call'.arg.id = gwCall'.id
        /\ gwCall'.id \notin sent
        /\ sent' = sent \cup {gwCall'.id}
        /\ sent' \subseteq DOMAIN transactions']_vars

\* the second create call has been issued, for a payout
C26_Witness ==
  /\ gwCall.endpoint = "POST /payouts"
  /\ Cardinality(sent) = 2
  /\ gwCall.id \in sent
  /\ Has(transactions, gwCall.id)
  /\ transactions[gwCall.id].status = "PENDING"

\* C27 (as stated): when the gateway call of a deposit, payout or
\* hosted-payment handler succeeds, the stored status becomes the status the
\* gateway reports, pawapayResponse the serialized payload, country the
\* gateway's country if the payload has one, and amount, currency,
\* phoneNumber and provider stay as they were
C27_InitiateSuccessMerge ==
  [][\A h \in DOMAIN hs :
       (/\ hs[h] # Idle
        /\ hs[h].kind \in CreatingKinds
        /\ hs[h].pc = "gw"
        /\ hs'[h] # hs[h]
        /\ gwCall'.out.ok
        /\ Has(transactions, hs[h].id))
       => LET data == gwCall'.out.data
              before == transactions[hs[h].id]
              after == transactions'[hs[h].id]
          IN  /\ data.status # Undefined => after.status = data.status
              /\ after.pawapayResponse =
                   JSONstringify(data, IF hs[h].kind = "hosted"
                                       THEN SessionKeys ELSE PayloadKeys)
              /\ Truthy(data.country) => after.country = data.country
              /\ \A f \in {"amount", "currency", "phoneNumber", "provider"} :
                   after[f] = before[f]]_vars

\* C28 (as stated): a stored country that is not empty is never replaced by
\* the empty string
C28_CountryNeverEmptied ==
  [][\A id \in DOMAIN transactions :
       Truthy(transactions[id].country) => transactions'[id].country # ""]_vars

\* C29 (as stated): a stored providerTransactionId that holds a gateway
\* reference is never cleared or lost in a later write
C29_ProviderIdNeverCleared ==
  [][\A id \in DOMAIN transactions :
       Truthy(transactions[id].providerTransactionId)
         => Truthy(transactions'[id].providerTransactionId)]_vars

\* C30: a webhook is answered with 400 unless its payload carries a depositId
\* or a payoutId, and a webhook answered with 400 changes no record and calls
\* no store method; when the payload carries both ids the update goes to the
\* record named by depositId, which takes the payload's status, and the
\* record named by payoutId is left as it was
C30_WebhookIdSelection ==
  [][(/\ nreq' = nreq + 1
      /\ lastRes' # NoRes
      /\ lastRes'.kind = "callback")
     => /\ lastRes'.code = 400 =>
             /\ transactions' = transactions
             /\ call' = NoCall
        /\ lastRes'.code # 400 =>
             /\ call'.op = "update"
             /\ Truthy(call'.req.depositId) \/ Truthy(call'.req.payoutId)
             /\ (Truthy(call'.req.depositId) /\ Truthy(call'.req.payoutId))
                  => LET d == call'.req.depositId
                         q == call'.req.payoutId
                     IN  /\ call'.id = d
                         /\ Has(transactions, d) =>
                              /\ transactions'[d].status = call'.req.status
                              /\ transactions'[d].pawapayResponse =
                                   JSONstringify(call'.req, CallbackKeys)
                         /\ (q # d /\ Has(transactions, q)) =>
                              transactions'[q] = transactions[q]]_vars

\* a webhook naming two stored transactions has been applied: the deposit's
\* record is COMPLETED, the payout's still PENDING
C30_Witness ==
  /\ call.op = "update"
  /\ call.by = "callback"
  /\ Truthy(call.req.depositId)
  /\ Truthy(call.req.payoutId)
  /\ call.req.depositId # call.req.payoutId
  /\ Has(transactions, call.req.depositId)
  /\ Has(transactions, call.req.payoutId)
  /\ transactions[call.req.depositId].status = "COMPLETED"
  /\ transactions[call.req.payoutId].status = "PENDING"

\* C31: every updateTransaction that finds its record stamps updated with the
\* time of the call, also when the partial update names an updated value of
\* its own; so the updated of a stored transaction never decreases and is
\* never earlier than its created
C31_UpdatedMonotone ==
  [][/\ \A id \in DOMAIN transactions :
          transactions'[id].updated >= transactions[id].updated
     /\ \A id \in DOMAIN transactions' :
          /\ transactions'[id].updated >= transactions'[id].created
          /\ \A F \in {P \in Partials : "updated" \in DOMAIN P} :
               updateTransaction(transactions', id, F, clock')[id].updated
                 = clock'
     /\ (call'.op = "update" /\ Has(transactions, call'.id))
          => transactions'[call'.id].updated = clock']_vars

\* a record updated twice since its creation, the last time just now
C31_Witness ==
  /\ call.op = "update"
  /\ Has(transactions, call.id)
  /\ transactions[call.id].updated = clock
  /\ transactions[call.id].updated >= transactions[call.id].created + 2

\* C32: getAllTransactions returns each stored transaction exactly once, the
\* later created first, and getTransactionsByType(t) returns exactly the
\* stored transactions of type t in the same order; GET /api/transactions
\* answers with that list
C32_ListOrdering ==
  LET all == getAllTransactions(transactions)
  IN  /\ Len(all) = Cardinality(DOMAIN transactions)
      /\ \A id \in DOMAIN transactions :
           \E i \in 1..Len(all) : all[i] = transactions[id]
      /\ \A i \in 1..Len(all) : \A j \in 1..Len(all) :
           i < j => all[i].created >= all[j].created
      /\ \A t \in {"DEPOSIT", "PAYOUT"} :
           getTransactionsByType(transactions, t)
             = SelectSeq(all, LAMBDA x : x.type = t)
      /\ (lastRes # NoRes /\ lastRes.kind = "transactions")
           => /\ lastRes.code = 200
              /\ lastRes.body = ResJsonList(all)

\* GET /api/transactions has listed a payout and an older deposit
C32_Witness ==
  /\ lastRes # NoRes
  /\ lastRes.kind = "transactions"
  /\ Len(lastRes.body) = 2
  /\ lastRes.body[1].type = "PAYOUT"
  /\ lastRes.body[2].type = "DEPOSIT"
  /\ getTransactionsByType(transactions, "PAYOUT") # <<>>

\* C33: whenever a request has read the catalog, initializeProviders has
\* created all six default providers: the request is answered from a catalog
\* that holds two active providers for each of RWA, UGA and KEN
C33_SeededBeforeRequests ==
  (lastRes # NoRes /\ lastRes.kind = "providers")
    => /\ seeded = Len(DefaultProviders)
       /\ Len(getAllProviders(providers)) = 6
       /\ \A i \in 1..Len(DefaultProviders) :
            \E p \in Elements(getAllProviders(providers)) :
              /\ p.code = DefaultProviders[i].code
              /\ p.country = DefaultProviders[i].country
       /\ \A c \in {"RWA", "UGA", "KEN"} :
            Len(getProvidersByCountry(providers, c)) = 2
       /\ \E c \in Countries :
            /\ lastRes.body = getProvidersByCountry(providers, c)
            /\ c \in {"RWA", "UGA", "KEN"} => Len(lastRes.body) = 2

\* GET /api/providers/KEN has been answered with the two Kenyan providers
C33_Witness ==
  /\ lastRes # NoRes
  /\ lastRes.kind = "providers"
  /\ Len(lastRes.body) = 2
  /\ lastRes.body[1].country = "KEN"
  /\ server.state = "registered"

\* the routes that only read or only relay
ReadOnlyKinds ==
  ProxyKinds \cup {"transactions", "transaction", "providers"}

\* C34: a step of GET /api/active-config/:country, POST /api/predict-provider,
\* GET /api/transactions, GET /api/transactions/:id or
\* GET /api/providers/:country, be it the arrival of the request, the gateway
\* call or its success or failure, leaves the transaction store and the
\* provider catalog as they were and calls no store method that writes
C34_ReadsChangeNothing ==
  [][(\/ /\ lastRes' # NoRes
         /\ lastRes'.kind \in ReadOnlyKinds
         /\ (nreq' = nreq + 1 \/ hs' # hs)
      \/ \E h \in DOMAIN hs :
           /\ hs'[h] # hs[h]
           /\ \/ hs[h] # Idle /\ hs[h].kind \in ProxyKinds
              \/ hs'[h] # Idle /\ hs'[h].kind \in ProxyKinds)
     => /\ transactions' = transactions
        /\ providers' = providers
        /\ clock' = clock
        /\ call' = NoCall
             \/ call'.op \in {"get", "getAll", "getProvidersByCountry"}]_vars

\* the gateway call of GET /api/active-config/:country has failed and been
\* answered with 500 while a transaction is stored
C34_Witness ==
  /\ lastRes # NoRes
  /\ lastRes.kind = "activeConfig"
  /\ lastRes.code = 500
  /\ gwCall.endpoint = "reply"
  /\ ~gwCall.out.ok
  /\ DOMAIN transactions # {}

\* what the handler in slot h can do next
HandlerStep(h) ==
  \/ InitiateReply(h)
  \/ InitiateRespond(h)
  \/ HostedReply(h)
  \/ HostedRespond(h)
  \/ StatusReplyChanged(h)
  \/ StatusReplySame(h)
  \/ ReturnReply(h)
  \/ ProxyReply(h)

\* C35: every request gets one response.  A request is answered in the step
\* that takes it or leaves one handler running; a running handler answers in
\* the step in which it ends, under its own route, and in no other; and a
\* running handler can always go on once the gateway has returned or failed
\* (behind a handler whose continuation is queued), so none ends silently or
\* is left waiting
C35_ExactlyOneResponse ==
  /\ [](\A h \in Slots :
          hs[h] # Idle =>
            \/ ENABLED HandlerStep(h)
            \/ hs[h].pc = "gw" /\ \E g \in Slots : ENABLED InitiateRespond(g)
            \/ hs[h].pc = "gw" /\ \E g \in Slots : ENABLED HostedRespond(g))
  /\ [][/\ nreq' = nreq + 1 =>
             \/ /\ lastRes' # NoRes
                /\ hs' = hs
             \/ /\ lastRes' = NoRes
                /\ \E h \in Slots :
                     /\ hs[h] = Idle
                     /\ hs'[h] # Idle
                     /\ \A g \in Slots \ {h} : hs'[g] = hs[g]
        /\ nreq' = nreq =>
             \E h \in Slots :
               /\ hs[h] # Idle
               /\ hs'[h] # hs[h]
               /\ \A g \in Slots \ {h} : hs'[g] = hs[g]
               /\ hs'[h] = Idle =>
                    /\ lastRes' # NoRes
                    /\ lastRes'.kind = hs[h].kind
               /\ hs'[h] # Idle =>
                    /\ lastRes' = NoRes
                    /\ hs[h].pc = "gw"
                    /\ hs'[h].pc = "written"]_vars

\* the failure of a hosted-payment session call has been answered with 500,
\* every request taken has been answered, and no handler is running
C35_Witness ==
  /\ lastRes # NoRes
  /\ lastRes.kind = "hosted"
  /\ lastRes.code = 500
  /\ nreq = MaxRequests
  /\ \A h \in Slots : hs[h] = Idle

\* C36: when the webhook is applied to a stored transaction twice in a row
\* with the same payload, the second application leaves every column but
\* updated as the first left it
C36_WebhookIdempotent ==
  [][(/\ call.op = "update"
      /\ call.by = "callback"
      /\ call'.op = "update"
      /\ call'.by = "callback"
      /\ call'.req = call.req
      /\ Has(transactions, call.id))
     => /\ call'.id = call.id
        /\ \A f \in Fields \ {"updated"} :
             transactions'[call.id][f] = transactions[call.id][f]
        /\ \A id \in DOMAIN transactions \ {call.id} :
             transactions'[id] = transactions[id]]_vars

\* two webhooks have been applied to a transaction whose initiating handler
\* still waits for the gateway, the last one reporting COMPLETED
C36_Witness ==
  /\ call.op = "update"
  /\ call.by = "callback"
  /\ call.req.status = "COMPLETED"
  /\ Has(transactions, call.id)
  /\ transactions[call.id].status = "COMPLETED"
  /\ transactions[call.id].providerTransactionId = "ptx1"
  /\ transactions[call.id].updated = transactions[call.id].created + 2
  /\ nreq = MaxRequests
  /\ \E h \in Slots :
       hs[h] # Idle /\ hs[h].id = call.id /\ hs[h].kind \in CreatingKinds

\* C37 (as stated): when a webhook has written to a transaction while
\* GET /api/payment-status/:id or GET /payment-return waited for the
\* gateway, the handler does not put the providerTransactionId or country it
\* read before the wait back over the value the webhook stored
C37_NoStaleWriteBack ==
  [][\A h \in DOMAIN hs :
       (/\ hs[h] # Idle
        /\ hs[h].kind \in {"paymentStatus", "return"}
        /\ hs'[h] = Idle
        /\ Has(transactions, hs[h].id)
        /\ call.op = "update"
        /\ call.by = "callback"
        /\ call.id = hs[h].id)
       => \A f \in {"providerTransactionId", "country"} :
            transactions[hs[h].id][f] # hs[h].tx[f]
              => transactions'[hs[h].id][f] # hs[h].tx[f]]_vars

\* C38: the set of stored ids changes only in a step in which a deposit,
\* payout or hosted-payment handler calls createTransaction, so a webhook, a
\* status check or a return request adds no record, for an unknown id
\* either; and every record is stored under the key that is its id
C38_OnlyInitiateCreates ==
  [][/\ DOMAIN transactions' # DOMAIN transactions
          => /\ call'.op = "create"
             /\ call'.by \in CreatingKinds
             /\ DOMAIN transactions' = DOMAIN transactions \cup {call'.id}
     /\ (call'.op # "create" \/ call'.by \notin CreatingKinds)
          => DOMAIN transactions' = DOMAIN transactions
     /\ \A id \in DOMAIN transactions' : transactions'[id].id = id]_vars

\* a webhook naming an id that is not stored has been answered, and the store
\* holds the one record it held before
C38_Witness ==
  /\ call.op = "update"
  /\ call.by = "callback"
  /\ ~Has(transactions, call.id)
  /\ Cardinality(DOMAIN transactions) = 1
  /\ lastRes # NoRes
  /\ lastRes.kind = "callback"

\* C39 (as stated): the receipt page stops polling only once it has seen
\* COMPLETED or FAILED or has been unmounted, and it calls for the print
\* dialog at most once, and only when the effective status is COMPLETED
C39_ReceiptPolling ==
  /\ [](page.pc = "stopped" =>
          ~page.mounted \/ page.liveStatus \in {"COMPLETED", "FAILED"})
  /\ [][page'.prints # page.prints =>
          /\ page.prints = 0
          /\ page'.prints = 1
          /\ EffectiveStatus(page') = "COMPLETED"]_vars

====
